---- MODULE Spec2Model ----
(***************************************************************************)
(* Model of the Wasabi download tool.  The repository holds two           *)
(* implementations of the same command-line surface:                      *)
(*   "mono"    : src/wasabi_downloader.py                                 *)
(*   "modular" : src/wasabi-downloader/{wasabi_downloader,s3_handler,     *)
(*               config_loader}.py                                        *)
(* Strings (object keys, prefixes, local paths) are sequences of          *)
(* one-character strings; datetimes are records compared field by field.  *)
(***************************************************************************)
EXTENDS Integers, Sequences, FiniteSets, TLC

VARIABLES
    \* ---- point-in-time resolution (download_versioned) ----
    impl,               \* which program runs: "mono" or "modular"
    pc,                 \* position in the versioned-download handler
    timestamp_str,      \* --timestamp argument, a sequence of digits
    target_timestamp,   \* end-of-day datetime, once computed
    all_entries,        \* mono: entries of all pages; modular: of this page
    idx,                \* index in all_entries of the next entry to scan
    scanned,            \* history: entries the scan loop has gone through
    latest,             \* latest_versions_in_time / latest_valid_versions
    to_download,        \* to_download / objects_to_download
    total_size,         \* modular: sum of the selected sizes
    \* ---- path mapper ----
    pm_impl, pm_pc, source_prefix, source_key, dest_dir, local_path, made_dir,
    \* ---- batch download loop ----
    b_impl, b_pc, b_faults, b_i, b_attempts, success_count, fail_count,
    b_tally, b_exit,
    \* ---- single-file mode ----
    s_impl, s_pc, s_source, s_bucket, s_destination, s_exists, s_fault,
    s_path, s_dirs_made, s_head, s_get_issued, s_file_created, s_report,
    s_exit,
    \* ---- start-up: configuration, MFA, storage client ----
    c_impl, c_pc,
    c_file,             \* config.csv: "absent", "malformed" or "ok"
    c_rows,             \* config.csv: what it holds for each key
    c_token,            \* what the user types at the MFA prompt
    c_sts_fault,        \* how the token service behaves
    c_command, c_objects,
    config,             \* the dictionary load_config returned
    session_params,     \* the credentials the storage client is built with
    s3_client,          \* TRUE once the storage client is constructed
    c_calls,            \* history: the network calls issued, in order
    c_exit

resolveVars == <<impl, pc, timestamp_str, target_timestamp,
                 all_entries, idx, scanned, latest, to_download, total_size>>
pathVars == <<pm_impl, pm_pc, source_prefix, source_key, dest_dir, local_path,
              made_dir>>
batchVars == <<b_impl, b_pc, b_faults, b_i, b_attempts, success_count,
               fail_count, b_tally, b_exit>>
singleVars == <<s_impl, s_pc, s_source, s_bucket, s_destination, s_exists,
                s_fault, s_path, s_dirs_made, s_head, s_get_issued,
                s_file_created, s_report, s_exit>>
startVars == <<c_impl, c_pc, c_file, c_rows, c_token, c_sts_fault, c_command,
               c_objects, config, session_params, s3_client, c_calls, c_exit>>
vars == <<resolveVars, pathVars, batchVars, singleVars, startVars>>

Impls == {"mono", "modular"}
NoValue == "none"

(***************************************************************************)
(* Strings                                                                 *)
(***************************************************************************)
sep == "/"
dot == <<".">>
dotdot == <<".", ".">>

startswith(s, p) == Len(p) <= Len(s) /\ SubSeq(s, 1, Len(p)) = p
endswith(s, p) == Len(p) <= Len(s) /\ SubSeq(s, Len(s) - Len(p) + 1, Len(s)) = p

RECURSIVE rstrip(_, _)
rstrip(s, c) ==
    IF s # <<>> /\ s[Len(s)] = c THEN rstrip(SubSeq(s, 1, Len(s) - 1), c) ELSE s

\* str.rfind(sep) + 1 : index of the character after the last separator
RECURSIVE rfindAfter(_, _)
rfindAfter(s, i) ==
    IF i = 0 THEN 0 ELSE IF s[i] = sep THEN i ELSE rfindAfter(s, i - 1)

\* str.split(sep) : the components, empty ones included
RECURSIVE splitFrom(_, _, _)
splitFrom(s, i, cur) ==
    IF i > Len(s) THEN <<cur>>
    ELSE IF s[i] = sep THEN <<cur>> \o splitFrom(s, i + 1, <<>>)
    ELSE splitFrom(s, i + 1, Append(cur, s[i]))
split(s) == splitFrom(s, 1, <<>>)

\* sep.join(comps)
RECURSIVE sepjoin(_)
sepjoin(comps) ==
    IF comps = <<>> THEN <<>>
    ELSE IF Len(comps) = 1 THEN comps[1]
    ELSE comps[1] \o <<sep>> \o sepjoin(Tail(comps))

SelectNonEmpty(comps) == SelectSeq(comps, LAMBDA x : x # <<>>)

(***************************************************************************)
(* posixpath                                                               *)
(***************************************************************************)
cwd == <<"/", "w">>     \* os.getcwd(): the directory the tool is run from

isabs(p) == startswith(p, <<sep>>)

\* os.path.join(a, b)
join(a, b) ==
    IF startswith(b, <<sep>>) THEN b
    ELSE IF a = <<>> \/ endswith(a, <<sep>>) THEN a \o b
    ELSE a \o <<sep>> \o b

\* the loop of normpath over the components
RECURSIVE normcomps(_, _, _)
normcomps(comps, new_comps, initial_slashes) ==
    IF comps = <<>> THEN new_comps
    ELSE LET comp == Head(comps) IN
         IF comp = <<>> \/ comp = dot
         THEN normcomps(Tail(comps), new_comps, initial_slashes)
         ELSE IF comp # dotdot
                 \/ (initial_slashes = 0 /\ new_comps = <<>>)
                 \/ (new_comps # <<>> /\ new_comps[Len(new_comps)] = dotdot)
         THEN normcomps(Tail(comps), Append(new_comps, comp), initial_slashes)
         ELSE IF new_comps # <<>>
         THEN normcomps(Tail(comps), SubSeq(new_comps, 1, Len(new_comps) - 1),
                        initial_slashes)
         ELSE normcomps(Tail(comps), new_comps, initial_slashes)

normpath(path) ==
    IF path = <<>> THEN dot
    ELSE LET initial_slashes ==
                 IF ~startswith(path, <<sep>>) THEN 0
                 ELSE IF startswith(path, <<sep, sep>>)
                         /\ ~startswith(path, <<sep, sep, sep>>) THEN 2
                 ELSE 1
             body == sepjoin(normcomps(split(path), <<>>, initial_slashes))
             res == [i \in 1..initial_slashes |-> sep] \o body
         IN IF res = <<>> THEN dot ELSE res

abspath(path) == normpath(IF isabs(path) THEN path ELSE join(cwd, path))

dirname(p) ==
    LET i == rfindAfter(p, Len(p))
        head == SubSeq(p, 1, i)
    IN IF head # <<>> /\ head # [k \in 1..Len(head) |-> sep]
       THEN rstrip(head, sep) ELSE head

basename(p) == SubSeq(p, rfindAfter(p, Len(p)) + 1, Len(p))

RECURSIVE commonlen(_, _)
commonlen(a, b) ==
    IF a = <<>> \/ b = <<>> \/ Head(a) # Head(b) THEN 0
    ELSE 1 + commonlen(Tail(a), Tail(b))

\* os.path.relpath(path, start); path is never empty here (an object key)
relpath(path, start) ==
    LET start_list == SelectNonEmpty(split(abspath(start)))
        path_list == SelectNonEmpty(split(abspath(path)))
        i == commonlen(start_list, path_list)
        rel_list == [k \in 1..(Len(start_list) - i) |-> dotdot]
                    \o SubSeq(path_list, i + 1, Len(path_list))
    IN IF rel_list = <<>> THEN dot ELSE sepjoin(rel_list)

(***************************************************************************)
(* datetime                                                                *)
(***************************************************************************)
Dt(y, mo, d, h, mi, s, us) ==
    [year |-> y, month |-> mo, day |-> d, hour |-> h, minute |-> mi,
     second |-> s, microsecond |-> us]

DtFields(t) == <<t.year, t.month, t.day, t.hour, t.minute, t.second,
                 t.microsecond>>

RECURSIVE LexLess(_, _)
LexLess(a, b) ==
    IF a = <<>> THEN FALSE
    ELSE IF Head(a) # Head(b) THEN Head(a) < Head(b)
    ELSE LexLess(Tail(a), Tail(b))

\* comparison of two timezone-aware UTC datetimes
DtLess(a, b) == LexLess(DtFields(a), DtFields(b))
DtLeq(a, b) == a = b \/ DtLess(a, b)
DtGreater(a, b) == DtLess(b, a)

IsLeap(y) == (y % 4 = 0 /\ y % 100 # 0) \/ y % 400 = 0
DaysInMonth(y, m) ==
    IF m = 2 THEN (IF IsLeap(y) THEN 29 ELSE 28)
    ELSE IF m \in {4, 6, 9, 11} THEN 30 ELSE 31

\* datetime.strptime(s, '%Y%m%d') for a string of eight digits: the year
\* takes four digits, month and day two each
ValueError == [error |-> "ValueError"]
IsDatetime(t) == "year" \in DOMAIN t
strptime(s) ==
    LET y == s[1] * 1000 + s[2] * 100 + s[3] * 10 + s[4]
        m == s[5] * 10 + s[6]
        d == s[7] * 10 + s[8]
    IN IF y >= 1 /\ m \in 1..12 /\ d >= 1 /\ d <= DaysInMonth(y, m)
       THEN Dt(y, m, d, 0, 0, 0, 0) ELSE ValueError

EndOfDayNoMicrosecond(target_date) ==
    [target_date EXCEPT !.hour = 23, !.minute = 59, !.second = 59]
\* target_date.replace(hour=23, minute=59, second=59, microsecond=999999,
\*                     tzinfo=timezone.utc)
EndOfDay(target_date) ==
    [target_date EXCEPT !.hour = 23, !.minute = 59, !.second = 59,
                        !.microsecond = 999999]

(***************************************************************************)
(* The version listing the backend serves                                  *)
(***************************************************************************)
MaxEntries == 3     \* entries the backend lists in one run

\* a file key and the key of a directory placeholder
FileKey == <<"f">>
PlaceholderKey == <<"d", "/">>
Noon == Dt(2024, 6, 1, 12, 0, 0, 0)
LastMicrosecond == Dt(2024, 6, 1, 23, 59, 59, 999999)
NextMidnight == Dt(2024, 6, 2, 0, 0, 0, 0)
EntryTimes == { Noon, LastMicrosecond, NextMidnight }
EntrySizes == {0, 5}
TimestampStrs == { <<2,0,2,4,0,6,0,1>>, <<2,0,2,4,0,6,0,2>>,
                   <<2,0,2,4,0,6,3,1>>, <<2,0,2,3,0,2,2,9>> }

\* a record of page['Versions'] and one of page['DeleteMarkers']; a delete
\* marker carries no Size.  The file key has every history over EntryTimes;
\* the placeholder key has an older version with content, a newer empty
\* version and a delete marker.
VersionShapes ==
    [Key : {FileKey}, LastModified : EntryTimes, Size : EntrySizes]
    \cup { [Key |-> PlaceholderKey, LastModified |-> Noon, Size |-> 5],
           [Key |-> PlaceholderKey, LastModified |-> LastMicrosecond, Size |-> 0] }
MarkerShapes ==
    [Key : {FileKey}, LastModified : EntryTimes]
    \cup { [Key |-> PlaceholderKey, LastModified |-> LastMicrosecond] }

SeqsUpTo(S, n) == UNION { [1..k -> S] : k \in 0..n }

IsDeleteMarker(entry) == "Size" \notin DOMAIN entry

\* the backend gives every listed entry its own version id
WithId(shape, id) ==
    IF "Size" \in DOMAIN shape
    THEN [Key |-> shape.Key, VersionId |-> id,
          LastModified |-> shape.LastModified, Size |-> shape.Size]
    ELSE [Key |-> shape.Key, VersionId |-> id,
          LastModified |-> shape.LastModified]

\* page.get('Versions', []) followed by page.get('DeleteMarkers', [])
PageEntries(vs, ms, base) ==
    [i \in 1..(Len(vs) + Len(ms)) |->
        WithId(IF i <= Len(vs) THEN vs[i] ELSE ms[i - Len(vs)], base + i)]

(***************************************************************************)
(* dict: the entries in insertion order, one per key                       *)
(***************************************************************************)
DictHas(d, key) == \E i \in 1..Len(d) : d[i].Key = key
DictGet(d, key) == d[CHOOSE i \in 1..Len(d) : d[i].Key = key]
DictSet(d, key, entry) ==
    IF DictHas(d, key)
    THEN [i \in 1..Len(d) |-> IF d[i].Key = key THEN entry ELSE d[i]]
    ELSE Append(d, entry)

(***************************************************************************)
(* Point-in-time resolution                                                *)
(***************************************************************************)
\* mono skips directory placeholders; modular has no such test
Skipped(im, entry) == im = "mono" /\ endswith(entry.Key, <<sep>>)

EligibleAlways(entry, target) == TRUE
\* entry['LastModified'] <= target_timestamp
Eligible(entry, target) == DtLeq(entry.LastModified, target)

ReplacesAlways(d, entry) == TRUE
ReplacesOnTie(d, entry) ==
    ~DictHas(d, entry.Key)
    \/ ~DtLess(entry.LastModified, DictGet(d, entry.Key).LastModified)
\* key not in d or entry['LastModified'] > d[key]['LastModified']
Replaces(d, entry) ==
    ~DictHas(d, entry.Key)
    \/ DtGreater(entry.LastModified, DictGet(d, entry.Key).LastModified)

\* one iteration of the scan loop over the entries
ScanStep(im, d, entry, target) ==
    IF Skipped(im, entry) THEN d
    ELSE IF Eligible(entry, target) /\ Replaces(d, entry)
    THEN DictSet(d, entry.Key, entry)
    ELSE d

RECURSIVE ScanAll(_, _, _, _)
ScanAll(im, d, entries, target) ==
    IF entries = <<>> THEN d
    ELSE ScanAll(im, ScanStep(im, d, Head(entries), target), Tail(entries), target)

SelectAll(d) == d
\* mono: if 'Size' in entry: to_download[key] = entry['VersionId']
SelectMono(d) == SelectSeq(d, LAMBDA e : "Size" \in DOMAIN e)
\* modular: if 'VersionId' in entry and entry.get('Size', 0) > 0
SelectModular(d) ==
    SelectSeq(d, LAMBDA e : "VersionId" \in DOMAIN e
                            /\ (IF "Size" \in DOMAIN e THEN e.Size ELSE 0) > 0)

FinalSelect(im, d) == IF im = "mono" THEN SelectMono(d) ELSE SelectModular(d)

\* mono keeps key -> VersionId, modular keeps the entries
AsResult(im, sel) ==
    IF im = "mono"
    THEN [i \in 1..Len(sel) |-> [Key |-> sel[i].Key, VersionId |-> sel[i].VersionId]]
    ELSE sel

RECURSIVE SumSizes(_)
SumSizes(sel) == IF sel = <<>> THEN 0 ELSE Head(sel).Size + SumSizes(Tail(sel))

\* the (key, version id) pairs a result selects for download
Selection(res) == { <<res[i].Key, res[i].VersionId>> : i \in 1..Len(res) }

(***************************************************************************)
(* download_versioned up to the selection of what to download              *)
(***************************************************************************)
ResolveInit ==
    /\ impl \in Impls
    /\ pc = "start"
    /\ timestamp_str \in TimestampStrs
    /\ target_timestamp = ValueError
    /\ all_entries = <<>>
    /\ idx = 1
    /\ scanned = <<>>
    /\ latest = <<>>
    /\ to_download = <<>>
    /\ total_size = 0

ResolveIdle ==
    /\ impl = "mono"
    /\ pc = "idle"
    /\ timestamp_str = <<>>
    /\ target_timestamp = ValueError
    /\ all_entries = <<>>
    /\ idx = 1
    /\ scanned = <<>>
    /\ latest = <<>>
    /\ to_download = <<>>
    /\ total_size = 0

\* strptime and replace; an invalid date ends the run with status 1
ParseTimestamp ==
    /\ pc = "start"
    /\ LET target_date == strptime(timestamp_str) IN
       IF ~IsDatetime(target_date)
       THEN /\ pc' = "exit1"
            /\ UNCHANGED target_timestamp
       ELSE /\ pc' = "listing"
            /\ target_timestamp' = EndOfDay(target_date)
    /\ UNCHANGED <<impl, timestamp_str, all_entries, idx,
                   scanned, latest, to_download, total_size>>

\* entries listed so far; the next version id follows them
ListedSoFar == IF impl = "mono" THEN Len(all_entries) ELSE Len(scanned)

\* the paginator yields one more page
FetchPage ==
    /\ pc = "listing"
    /\ \E vs \in SeqsUpTo(VersionShapes, MaxEntries - ListedSoFar) :
       \E ms \in SeqsUpTo(MarkerShapes, MaxEntries - ListedSoFar - Len(vs)) :
          LET page == PageEntries(vs, ms, ListedSoFar) IN
          IF impl = "mono"
          THEN /\ all_entries' = all_entries \o page
               /\ UNCHANGED <<pc, idx>>
          ELSE /\ all_entries' = page
               /\ idx' = 1
               /\ pc' = IF page = <<>> THEN "listing" ELSE "scanning"
    /\ UNCHANGED <<impl, timestamp_str, target_timestamp, scanned, latest,
                   to_download, total_size>>

\* the listing raises ClientError: the run ends with status 1
ListingError ==
    /\ pc = "listing"
    /\ pc' = "exit1"
    /\ UNCHANGED <<impl, timestamp_str, target_timestamp,
                   all_entries, idx, scanned, latest, to_download, total_size>>

\* the paginator has no more pages
PagesExhausted ==
    /\ pc = "listing"
    /\ IF impl = "mono"
       THEN /\ idx' = 1
            /\ pc' = IF all_entries = <<>> THEN "filter" ELSE "scanning"
       ELSE /\ pc' = "filter"
            /\ UNCHANGED idx
    /\ UNCHANGED <<impl, timestamp_str, target_timestamp,
                   all_entries, scanned, latest, to_download, total_size>>

\* one iteration of "for entry in all_entries"
ScanEntry ==
    /\ pc = "scanning"
    /\ idx <= Len(all_entries)
    /\ latest' = ScanStep(impl, latest, all_entries[idx], target_timestamp)
    /\ scanned' = Append(scanned, all_entries[idx])
    /\ IF idx < Len(all_entries)
       THEN /\ idx' = idx + 1
            /\ UNCHANGED <<pc, all_entries>>
       ELSE IF impl = "mono"
       THEN /\ idx' = idx + 1
            /\ pc' = "filter"
            /\ UNCHANGED all_entries
       ELSE \* modular: back to the loop over the pages, where all_entries is
            \* bound anew before it is read again
            /\ idx' = 1
            /\ pc' = "listing"
            /\ all_entries' = <<>>
    /\ UNCHANGED <<impl, timestamp_str, target_timestamp, to_download,
                   total_size>>

\* the loop over the retained entries that builds the download set
Filter ==
    /\ pc = "filter"
    /\ LET sel == FinalSelect(impl, latest) IN
       /\ to_download' = AsResult(impl, sel)
       /\ total_size' = IF impl = "mono" THEN 0 ELSE SumSizes(sel)
    /\ pc' = "resolved"
    /\ UNCHANGED <<impl, timestamp_str, target_timestamp,
                   all_entries, idx, scanned, latest>>

(***************************************************************************)
(* Path mapping of one listed key (download_dir, download_versioned,       *)
(* download_objects)                                                       *)
(***************************************************************************)
MaxSuffixLen == 3   \* characters a listed key adds to the source prefix

DEFAULT_DOWNLOAD_DIR == <<"D", "o", "w", "n", "l", "o", "a", "d">>
\* modular: os.path.join(os.getcwd(), 'Download')
get_default_download_dir == join(cwd, DEFAULT_DOWNLOAD_DIR)

SourcePrefixes == { <<>>, <<"a", "/", "b", "/">>, <<"a", "/", "b">>, <<"a">> }
SuffixChars == {"c", "/", "."}
ExampleKeys == { <<"a", "/", "b", "/", "c", "/", "d", ".", "t", "x", "t">>,
                 <<"a", "/", "b", "c", "/", "d", ".", "t", "x", "t">> }

\* the keys a listing with Prefix=prefix can return: every key that starts
\* with the prefix, character by character
ListedKeys(prefix) ==
    { k \in { prefix \o x : x \in SeqsUpTo(SuffixChars, MaxSuffixLen) }
            \cup ExampleKeys : k # <<>> /\ startswith(k, prefix) }

\* the listed keys that reach the download loop: mono drops the keys that
\* end in a separator, modular drops by size only
KeysToMap(im, prefix) ==
    { k \in ListedKeys(prefix) : im = "mono" => ~endswith(k, <<sep>>) }

\* --destination, or the default when it is not given
DestDirs(im) ==
    IF im = "mono" THEN { DEFAULT_DOWNLOAD_DIR, <<"o">> }
    ELSE { get_default_download_dir, DEFAULT_DOWNLOAD_DIR }

\* mono: relpath(key, start=source_prefix) joined onto dest_dir
PathMapMono(key, prefix, dest) == join(dest, relpath(key, prefix))

\* modular: the start is the prefix, or its parent directory when the prefix
\* does not end in a separator
PathMapModular(key, prefix, dest) ==
    LET prefix_dir == IF prefix # <<>> /\ ~endswith(prefix, <<sep>>)
                      THEN dirname(rstrip(prefix, sep)) ELSE prefix
    IN join(dest, relpath(key, prefix_dir))

PathMap(im, key, prefix, dest) ==
    IF im = "mono" THEN PathMapMono(key, prefix, dest)
    ELSE PathMapModular(key, prefix, dest)

PathInit ==
    /\ pm_impl \in Impls
    /\ pm_pc = "start"
    /\ source_prefix \in SourcePrefixes
    /\ source_key \in KeysToMap(pm_impl, source_prefix)
    /\ dest_dir \in DestDirs(pm_impl)
    /\ local_path = <<>>
    /\ made_dir = <<>>

PathIdle ==
    /\ pm_impl = "mono"
    /\ pm_pc = "idle"
    /\ source_prefix = <<>>
    /\ source_key = <<>>
    /\ dest_dir = <<>>
    /\ local_path = <<>>
    /\ made_dir = <<>>

\* relative_path and local_path / destination_path of one key
MapPath ==
    /\ pm_pc = "start"
    /\ local_path' = PathMap(pm_impl, source_key, source_prefix, dest_dir)
    /\ pm_pc' = "mapped"
    /\ UNCHANGED <<pm_impl, source_prefix, source_key, dest_dir, made_dir>>

\* os.makedirs(os.path.dirname(path), exist_ok=True); mono skips an empty
\* directory name
MakeDirs ==
    /\ pm_pc = "mapped"
    /\ made_dir' = dirname(local_path)
    /\ pm_pc' = "dirs"
    /\ UNCHANGED <<pm_impl, source_prefix, source_key, dest_dir, local_path>>

(***************************************************************************)
(* What the backend and the local file system answer to one transfer       *)
(***************************************************************************)
\* "none"         : every call succeeds
\* "mkdir_denied" : os.makedirs raises PermissionError
\* "head_error"   : head_object raises a ClientError other than 404
\* "get_error"    : download_file raises ClientError
\* "write_denied" : download_file raises PermissionError on the destination
\* "other"        : download_file raises another exception
Faults == {"none", "mkdir_denied", "head_error", "get_error", "write_denied",
           "other"}

\* os.makedirs(d, exist_ok=True)
MakedirsRaises(fault) == fault = "mkdir_denied"

\* head_object: 404 for a key that does not exist
HeadAnswer(exists, fault) ==
    IF fault = "head_error" THEN "error"
    ELSE IF exists THEN "200" ELSE "404"

\* s3_client.download_file of a key the backend has
GetOutcome(exists, fault) ==
    IF fault \in {"get_error", "write_denied", "other"} THEN fault
    ELSE IF exists THEN "ok" ELSE "get_error"

\* mono download_single_file with a destination inside a directory:
\* "True", "False", or "raise" when the exception leaves the function
DownloadSingleFile(exists, fault) ==
    IF MakedirsRaises(fault) THEN "raise"
    ELSE IF HeadAnswer(exists, fault) # "200" THEN "False"
    ELSE IF GetOutcome(exists, fault) # "ok" THEN "False"
    ELSE "True"

\* modular, one iteration of download_objects: "ok", "warned" (ClientError
\* caught and printed) or "raise"
DownloadObject(exists, fault) ==
    IF MakedirsRaises(fault) THEN "raise"
    ELSE LET g == GetOutcome(exists, fault) IN
         IF g = "ok" THEN "ok"
         ELSE IF g = "get_error" THEN "warned"
         ELSE "raise"

(***************************************************************************)
(* The download loop of a batch (download_dir, download_versioned)         *)
(***************************************************************************)
MaxObjects == 3     \* objects the listing step hands to the loop

\* per object: does it still exist, and what fails
ObjectFates(im) ==
    [exists : BOOLEAN,
     fault : IF im = "mono" THEN Faults ELSE Faults \ {"head_error"}]

\* nothing printed yet
NoTally == [printed |-> FALSE]

BatchInit ==
    /\ b_impl \in Impls
    /\ b_pc = "begin"
    /\ b_faults \in SeqsUpTo(ObjectFates(b_impl), MaxObjects)
    /\ b_i = 1
    /\ b_attempts = [i \in 1..Len(b_faults) |-> 0]
    /\ success_count = 0
    /\ fail_count = 0
    /\ b_tally = NoTally
    /\ b_exit = NoValue

BatchIdle ==
    /\ b_impl = "mono"
    /\ b_pc = "idle"
    /\ b_faults = <<>>
    /\ b_i = 1
    /\ b_attempts = <<>>
    /\ success_count = 0
    /\ fail_count = 0
    /\ b_tally = NoTally
    /\ b_exit = NoValue

\* "No files found": the command returns before the loop
BatchBegin ==
    /\ b_pc = "begin"
    /\ IF b_faults = <<>>
       THEN b_pc' = "done" /\ b_exit' = "zero"
       ELSE b_pc' = "loop" /\ UNCHANGED b_exit
    /\ UNCHANGED <<b_impl, b_faults, b_i, b_attempts, success_count,
                   fail_count, b_tally>>

\* one iteration of the loop over the objects
BatchDownloadOne ==
    /\ b_pc = "loop"
    /\ b_i <= Len(b_faults)
    /\ b_attempts' = [b_attempts EXCEPT ![b_i] = @ + 1]
    /\ LET o == b_faults[b_i]
           r == IF b_impl = "mono" THEN DownloadSingleFile(o.exists, o.fault)
                ELSE DownloadObject(o.exists, o.fault)
       IN IF r = "raise"
          THEN \* the exception leaves the loop and ends the process
               /\ b_pc' = "exit1"
               /\ b_exit' = "nonzero"
               /\ UNCHANGED <<b_i, success_count, fail_count>>
          ELSE /\ b_i' = b_i + 1
               /\ success_count' = IF r = "True" THEN success_count + 1
                                   ELSE success_count
               /\ fail_count' = IF r = "False" THEN fail_count + 1
                                ELSE fail_count
               /\ UNCHANGED <<b_pc, b_exit>>
    /\ UNCHANGED <<b_impl, b_faults, b_tally>>

\* the message after the loop: mono prints both counters, modular prints
\* "Successfully downloaded {file_count} files."
BatchReport ==
    /\ b_pc = "loop"
    /\ b_i > Len(b_faults)
    /\ b_tally' = IF b_impl = "mono"
                  THEN [printed |-> TRUE, succeeded |-> success_count,
                        failed |-> fail_count]
                  ELSE [printed |-> TRUE, succeeded |-> Len(b_faults),
                        failed |-> 0]
    /\ b_pc' = "done"
    /\ b_exit' = "zero"
    /\ UNCHANGED <<b_impl, b_faults, b_i, b_attempts, success_count,
                   fail_count>>

(***************************************************************************)
(* download_file: the single-file command                                  *)
(***************************************************************************)
SourceKeys == { <<"f">>, <<"a", "/", "f">> }
Buckets == {"bucket1", "bucket2"}
\* --destination: not given, a path inside a directory, a bare file name
NoDestination == [given |-> FALSE]
Destinations == { NoDestination,
                  [given |-> TRUE, path |-> <<"o", "/", "f">>],
                  [given |-> TRUE, path |-> <<"g">>] }

\* a printed message; NoKey and NoValue where it names no key or bucket
NoKey == <<>>
Message(kind, key, bucket) == [kind |-> kind, key |-> key, bucket |-> bucket]

SingleInit ==
    /\ s_impl \in Impls
    /\ s_pc = "start"
    /\ s_source \in SourceKeys
    /\ s_bucket \in Buckets
    /\ s_destination \in Destinations
    /\ s_exists \in BOOLEAN
    /\ s_fault \in Faults
    /\ s_path = <<>>
    /\ s_dirs_made = {}
    /\ s_head = NoValue
    /\ s_get_issued = FALSE
    /\ s_file_created = FALSE
    /\ s_report = <<>>
    /\ s_exit = NoValue

SingleIdle ==
    /\ s_impl = "mono"
    /\ s_pc = "idle"
    /\ s_source = <<>>
    /\ s_bucket = NoValue
    /\ s_destination = NoDestination
    /\ s_exists = FALSE
    /\ s_fault = "none"
    /\ s_path = <<>>
    /\ s_dirs_made = {}
    /\ s_head = NoValue
    /\ s_get_issued = FALSE
    /\ s_file_created = FALSE
    /\ s_report = <<>>
    /\ s_exit = NoValue

\* the local path of the file; mono also creates its directory here, before
\* the try block, so an exception of os.makedirs ends the process
SinglePrepare ==
    /\ s_pc = "start"
    /\ LET path == IF s_destination.given THEN s_destination.path
                   ELSE IF s_impl = "mono"
                        THEN join(DEFAULT_DOWNLOAD_DIR, basename(s_source))
                        ELSE join(get_default_download_dir, basename(s_source))
           dir == IF s_destination.given THEN dirname(s_destination.path)
                  ELSE DEFAULT_DOWNLOAD_DIR
       IN /\ s_path' = path
          /\ IF s_impl = "mono" /\ dir # <<>>
             THEN IF MakedirsRaises(s_fault)
                  THEN /\ s_pc' = "exit"
                       /\ s_exit' = "nonzero"
                       /\ s_report' = Append(s_report,
                                             Message("traceback", NoKey, NoValue))
                       /\ UNCHANGED s_dirs_made
                  ELSE /\ s_pc' = "head"
                       /\ s_dirs_made' = s_dirs_made \cup {dir}
                       /\ UNCHANGED <<s_exit, s_report>>
             ELSE /\ s_pc' = "head"
                  /\ UNCHANGED <<s_dirs_made, s_exit, s_report>>
    /\ UNCHANGED <<s_impl, s_source, s_bucket, s_destination, s_exists,
                   s_fault, s_head, s_get_issued, s_file_created>>

HeadFailureReportGeneric(im, answer, key, bucket) ==
    IF im = "mono"
    THEN << Message("unexpected", key, NoValue), Message("failed", key, NoValue) >>
    ELSE << Message("client_error", NoKey, NoValue) >>
\* what is printed when head_object does not answer 200, up to the exit
HeadFailureReport(im, answer, key, bucket) ==
    IF answer = "404"
    THEN IF im = "mono"
         THEN << Message("not_found", key, bucket), Message("failed", key, NoValue) >>
         ELSE << Message("not_found", key, bucket) >>
    ELSE IF im = "mono"
         THEN << Message("unexpected", key, NoValue), Message("failed", key, NoValue) >>
         ELSE << Message("client_error", NoKey, NoValue) >>

\* head_object (mono: in download_single_file; modular: get_object_info)
SingleHead ==
    /\ s_pc = "head"
    /\ LET answer == HeadAnswer(s_exists, s_fault) IN
       /\ s_head' = answer
       /\ IF answer = "200"
          THEN /\ s_pc' = "get"
               /\ UNCHANGED <<s_report, s_exit>>
          ELSE /\ s_pc' = "exit"
               /\ s_exit' = "nonzero"
               /\ s_report' = s_report
                              \o HeadFailureReport(s_impl, answer, s_source, s_bucket)
    /\ UNCHANGED <<s_impl, s_source, s_bucket, s_destination, s_exists,
                   s_fault, s_path, s_dirs_made, s_get_issued, s_file_created>>

\* the transfer.  mono: s3_client.download_file inside the try block, every
\* exception is caught and the command exits 1.  modular: download_file
\* creates the directory, then catches ClientError only and returns.
SingleGet ==
    /\ s_pc = "get"
    /\ s_pc' = "exit"
    /\ LET g == GetOutcome(s_exists, s_fault)
           dir == dirname(s_path)
       IN IF s_impl = "mono"
          THEN /\ s_get_issued' = TRUE
               /\ s_file_created' = (g = "ok")
               /\ s_exit' = IF g = "ok" THEN "zero" ELSE "nonzero"
               /\ s_report' = s_report \o
                     (IF g = "ok" THEN << Message("success", s_path, NoValue) >>
                      ELSE << Message(IF g = "get_error" THEN "unexpected"
                                      ELSE IF g = "write_denied" THEN "permission"
                                      ELSE "error", s_source, NoValue),
                              Message("failed", s_source, NoValue) >>)
               /\ UNCHANGED s_dirs_made
          ELSE IF dir = <<>> \/ MakedirsRaises(s_fault)
          THEN \* os.makedirs('') raises FileNotFoundError
               /\ s_exit' = "nonzero"
               /\ s_report' = Append(s_report, Message("os_error", NoKey, NoValue))
               /\ UNCHANGED <<s_get_issued, s_file_created, s_dirs_made>>
          ELSE /\ s_dirs_made' = s_dirs_made \cup {dir}
               /\ s_get_issued' = TRUE
               /\ s_file_created' = (g = "ok")
               /\ s_exit' = IF g \in {"ok", "get_error"} THEN "zero" ELSE "nonzero"
               /\ s_report' = s_report \o
                     (IF g = "ok" THEN << Message("success", NoKey, NoValue) >>
                      ELSE IF g = "get_error"
                      THEN << Message("warning", s_source, NoValue),
                              Message("success", NoKey, NoValue) >>
                      ELSE << Message("unexpected", NoKey, NoValue) >>)
    /\ UNCHANGED <<s_impl, s_source, s_bucket, s_destination, s_exists,
                   s_fault, s_path, s_head>>

(***************************************************************************)
(* Start-up: load_config, the MFA exchange, the storage client             *)
(***************************************************************************)
MaxListed == 2      \* objects a listing hands to the transfers

required_keys == {"aws_access_key_id", "aws_secret_access_key",
                  "endpoint_url", "bucket_name"}
ConfigKeys == required_keys \cup {"mfa_serial_number"}
MFA_PLACEHOLDER == "placeholder"    \* 'YOUR_MFA_SERIAL_NUMBER_ARN (optional)'

\* a key of config.csv: no row, a row with an empty value (NaN), a value
Cells == {"absent", "nan", "value"}
RowSets == { r \in [ConfigKeys -> Cells \cup {MFA_PLACEHOLDER}] :
               \A k \in required_keys : r[k] \in Cells }
NoRows == [k \in ConfigKeys |-> "absent"]
NoConfig == [k \in ConfigKeys |-> "absent"]

Commands == {"download_file", "download_dir", "download_versioned"}
Tokens == {"", "123456"}
StsFaults == {"none", "MultiFactorAuthChallengeFailed", "client_error",
              "connection_error"}

\* missing_keys: key not in config or pd.isna(config[key])
missing_keys(rows) == { k \in required_keys : rows[k] \in {"absent", "nan"} }

\* load_config: the exception it raises, or the dictionary it returns
load_config(im, file, rows) ==
    IF file = "absent" THEN [error |-> "FileNotFoundError"]
    ELSE IF file = "malformed" THEN [error |-> "ValueError"]
    ELSE IF missing_keys(rows) # {} THEN [error |-> "ValueError"]
    ELSE [config |->
            [k \in ConfigKeys |->
                IF k = "mfa_serial_number" /\ rows[k] = "nan" THEN "None"
                ELSE IF k = "mfa_serial_number" /\ rows[k] = "absent"
                        /\ im = "mono" THEN "None"
                ELSE rows[k]]]

\* the condition under which the MFA exchange is made
MfaConfigured(im, cfg) ==
    IF im = "mono" THEN cfg["mfa_serial_number"] \in {"value", MFA_PLACEHOLDER}
    ELSE cfg["mfa_serial_number"] = "value"

StsAnswerOk(serial, token, fault) == "ok"
\* sts_client.get_session_token(SerialNumber, TokenCode)
StsAnswer(serial, token, fault) ==
    IF fault # "none" THEN fault
    ELSE IF serial = MFA_PLACEHOLDER \/ token = "" THEN "client_error"
    ELSE "ok"

CountCalls(calls, name) ==
    Cardinality({ i \in 1..Len(calls) : calls[i] = name })

StartInit ==
    /\ c_impl \in Impls
    /\ c_pc = "start"
    /\ c_file \in {"absent", "malformed", "ok"}
    /\ c_rows \in (IF c_file = "ok" THEN RowSets ELSE {NoRows})
    /\ c_token \in Tokens
    /\ c_sts_fault \in StsFaults
    /\ c_command \in Commands
    /\ c_objects \in (IF c_command = "download_file" THEN {1} ELSE 0..MaxListed)
    /\ config = NoConfig
    /\ session_params = NoValue
    /\ s3_client = FALSE
    /\ c_calls = <<>>
    /\ c_exit = NoValue

StartIdle ==
    /\ c_impl = "mono"
    /\ c_pc = "idle"
    /\ c_file = "absent"
    /\ c_rows = NoRows
    /\ c_token = ""
    /\ c_sts_fault = "none"
    /\ c_command = "download_file"
    /\ c_objects = 0
    /\ config = NoConfig
    /\ session_params = NoValue
    /\ s3_client = FALSE
    /\ c_calls = <<>>
    /\ c_exit = NoValue

\* main: config = load_config(); an exception ends the process with status 1
LoadConfig ==
    /\ c_pc = "start"
    /\ LET r == load_config(c_impl, c_file, c_rows) IN
       IF "error" \in DOMAIN r
       THEN c_pc' = "exit" /\ c_exit' = "nonzero" /\ UNCHANGED config
       ELSE c_pc' = "auth" /\ config' = r.config /\ UNCHANGED c_exit
    /\ UNCHANGED <<c_impl, c_file, c_rows, c_token, c_sts_fault, c_command,
                   c_objects, session_params, s3_client, c_calls>>

\* the first half of create_s3_client / get_s3_client: the long-term keys, or
\* the temporary credentials of the MFA exchange.  modular refuses an empty
\* token before the exchange; an exception of the exchange leaves main with
\* status 1 in both programs (caught, or as a traceback).
Authenticate ==
    /\ c_pc = "auth"
    /\ IF ~MfaConfigured(c_impl, config)
       THEN /\ session_params' = "keys"
            /\ c_pc' = "client"
            /\ UNCHANGED <<c_calls, c_exit>>
       ELSE IF c_impl = "modular" /\ c_token = ""
       THEN /\ session_params' = "failed"
            /\ c_pc' = "exit"
            /\ c_exit' = "nonzero"
            /\ UNCHANGED c_calls
       ELSE /\ c_calls' = Append(c_calls, "sts.get_session_token")
            /\ IF StsAnswer(config["mfa_serial_number"], c_token, c_sts_fault)
                  = "ok"
               THEN /\ session_params' = "session_token"
                    /\ c_pc' = "client"
                    /\ UNCHANGED c_exit
               ELSE /\ session_params' = "failed"
                    /\ c_pc' = "exit"
                    /\ c_exit' = "nonzero"
    /\ UNCHANGED <<c_impl, c_file, c_rows, c_token, c_sts_fault, c_command,
                   c_objects, config, s3_client>>

\* the second half: boto3.client('s3', endpoint_url=..., **session_params)
BuildClient ==
    /\ c_pc = "client"
    /\ s3_client' = TRUE
    /\ c_pc' = "command"
    /\ UNCHANGED <<c_impl, c_file, c_rows, c_token, c_sts_fault, c_command,
                   c_objects, config, session_params, c_calls, c_exit>>

\* the first storage call of the command: the lookup of the single file, or
\* the listing; a listing with no object ends the command
FirstCall ==
    /\ c_pc = "command"
    /\ c_calls' = Append(c_calls,
                         IF c_command = "download_file" THEN "s3.head_object"
                         ELSE IF c_command = "download_dir"
                         THEN "s3.list_objects_v2"
                         ELSE "s3.list_object_versions")
    /\ IF c_objects = 0
       THEN c_pc' = "exit" /\ c_exit' = "zero"
       ELSE c_pc' = "transfer" /\ UNCHANGED c_exit
    /\ UNCHANGED <<c_impl, c_file, c_rows, c_token, c_sts_fault, c_command,
                   c_objects, config, session_params, s3_client>>

\* one transfer; in a batch mono looks each object up before its get
Transfer ==
    /\ c_pc = "transfer"
    /\ CountCalls(c_calls, "s3.download_file") < c_objects
    /\ c_calls' = c_calls \o
                    (IF c_impl = "mono" /\ c_command # "download_file"
                     THEN <<"s3.head_object", "s3.download_file">>
                     ELSE <<"s3.download_file">>)
    /\ UNCHANGED <<c_impl, c_pc, c_file, c_rows, c_token, c_sts_fault,
                   c_command, c_objects, config, session_params, s3_client,
                   c_exit>>

\* the command returns
Finish ==
    /\ c_pc = "transfer"
    /\ CountCalls(c_calls, "s3.download_file") = c_objects
    /\ c_pc' = "exit"
    /\ c_exit' = "zero"
    /\ UNCHANGED <<c_impl, c_file, c_rows, c_token, c_sts_fault, c_command,
                   c_objects, config, session_params, s3_client, c_calls>>

(***************************************************************************)
(* Specifications                                                          *)
(***************************************************************************)
\* point-in-time resolution
InitResolve == ResolveInit /\ PathIdle /\ BatchIdle /\ SingleIdle /\ StartIdle
NextResolve ==
    \/ ParseTimestamp /\ UNCHANGED <<pathVars, batchVars, singleVars, startVars>>
    \/ FetchPage /\ UNCHANGED <<pathVars, batchVars, singleVars, startVars>>
    \/ ListingError /\ UNCHANGED <<pathVars, batchVars, singleVars, startVars>>
    \/ PagesExhausted /\ UNCHANGED <<pathVars, batchVars, singleVars, startVars>>
    \/ ScanEntry /\ UNCHANGED <<pathVars, batchVars, singleVars, startVars>>
    \/ Filter /\ UNCHANGED <<pathVars, batchVars, singleVars, startVars>>
SpecResolve == InitResolve /\ [][NextResolve]_vars

\* path mapping
InitPath == ResolveIdle /\ PathInit /\ BatchIdle /\ SingleIdle /\ StartIdle
NextPath ==
    \/ MapPath /\ UNCHANGED <<resolveVars, batchVars, singleVars, startVars>>
    \/ MakeDirs /\ UNCHANGED <<resolveVars, batchVars, singleVars, startVars>>
SpecPath == InitPath /\ [][NextPath]_vars

\* batch download loop
InitBatch == ResolveIdle /\ PathIdle /\ BatchInit /\ SingleIdle /\ StartIdle
NextBatch ==
    \/ BatchBegin /\ UNCHANGED <<resolveVars, pathVars, singleVars, startVars>>
    \/ BatchDownloadOne /\ UNCHANGED <<resolveVars, pathVars, singleVars, startVars>>
    \/ BatchReport /\ UNCHANGED <<resolveVars, pathVars, singleVars, startVars>>
SpecBatch == InitBatch /\ [][NextBatch]_vars

\* single-file command
InitSingle == ResolveIdle /\ PathIdle /\ BatchIdle /\ SingleInit /\ StartIdle
NextSingle ==
    \/ SinglePrepare /\ UNCHANGED <<resolveVars, pathVars, batchVars, startVars>>
    \/ SingleHead /\ UNCHANGED <<resolveVars, pathVars, batchVars, startVars>>
    \/ SingleGet /\ UNCHANGED <<resolveVars, pathVars, batchVars, startVars>>
SpecSingle == InitSingle /\ [][NextSingle]_vars

\* start-up of any command
InitStart == ResolveIdle /\ PathIdle /\ BatchIdle /\ SingleIdle /\ StartInit
NextStart ==
    \/ LoadConfig /\ UNCHANGED <<resolveVars, pathVars, batchVars, singleVars>>
    \/ Authenticate /\ UNCHANGED <<resolveVars, pathVars, batchVars, singleVars>>
    \/ BuildClient /\ UNCHANGED <<resolveVars, pathVars, batchVars, singleVars>>
    \/ FirstCall /\ UNCHANGED <<resolveVars, pathVars, batchVars, singleVars>>
    \/ Transfer /\ UNCHANGED <<resolveVars, pathVars, batchVars, singleVars>>
    \/ Finish /\ UNCHANGED <<resolveVars, pathVars, batchVars, singleVars>>
SpecStart == InitStart /\ [][NextStart]_vars

\* any one of the commands
Init == InitResolve \/ InitPath \/ InitBatch \/ InitSingle \/ InitStart
Next == NextResolve \/ NextPath \/ NextBatch \/ NextSingle \/ NextStart
Spec == Init /\ [][Next]_vars

(***************************************************************************)
(* Properties of the point-in-time resolution                              *)
(***************************************************************************)
Range(q) == { q[i] : i \in 1..Len(q) }
KeysOf(q) == { q[i].Key : i \in 1..Len(q) }
Scanning == pc \in {"listing", "scanning", "filter", "resolved"}
NotAfterTarget(e) == DtLeq(e.LastModified, target_timestamp)
IsPlaceholderKey(key) == endswith(key, <<sep>>)
\* the scanned entries that compete for their key
Candidates == { e \in Range(scanned) :
                  NotAfterTarget(e) /\ ~(impl = "mono" /\ IsPlaceholderKey(e.Key)) }
\* the candidates of a key that carry its greatest eligible last_modified
TopCandidates(key) ==
    LET c == { e \in Candidates : e.Key = key }
    IN { e \in c : \A o \in c : DtLeq(o.LastModified, e.LastModified) }

\* C1: after every scanned entry the resolution state holds at most one entry
\* per key, the entry is not later than the target timestamp, and its
\* last_modified is the greatest among the entries of its key scanned so far
\* that do not exceed the target timestamp.
C1_ResolutionStateInvariant ==
    Scanning =>
        /\ \A i, j \in 1..Len(latest) : latest[i].Key = latest[j].Key => i = j
        /\ \A e \in Range(latest) :
              /\ e \in Range(scanned)
              /\ NotAfterTarget(e)
              /\ \A o \in Range(scanned) :
                    (o.Key = e.Key /\ NotAfterTarget(o))
                        => DtLeq(o.LastModified, e.LastModified)

\* C1 witness: a newer eligible entry was scanned before an older one of the
\* same key, an entry after the target was scanned too, and the key is retained
C1_Witness ==
    /\ Scanning
    /\ \E i, j, k \in 1..Len(scanned) :
          /\ i < j
          /\ scanned[i].Key = scanned[j].Key
          /\ scanned[k].Key = scanned[i].Key
          /\ NotAfterTarget(scanned[i])
          /\ DtLess(scanned[j].LastModified, scanned[i].LastModified)
          /\ ~NotAfterTarget(scanned[k])
          /\ DictHas(latest, scanned[i].Key)

\* the scanned entries in every order
Orders(q) == { [i \in 1..Len(q) |-> q[f[i]]] : f \in Permutations(1..Len(q)) }
\* the resolver run on the whole input q retains the same entries and selects
\* the same (key, version id) pairs as this run did
SameResultOn(q) ==
    LET d == ScanAll(impl, <<>>, q, target_timestamp)
    IN /\ Range(d) = Range(latest)
       /\ Selection(AsResult(impl, FinalSelect(impl, d))) = Selection(to_download)
OrderIndependent == \A q \in Orders(scanned) : SameResultOn(q)

\* C2 as stated: every permutation of the input yields the same winning entry
\* per key and the same download set.
C2_AnyPermutationSameResult ==
    pc = "resolved" => OrderIndependent

\* no key has two candidates that share its greatest eligible last_modified
NoTieAtTop == \A key \in KeysOf(scanned) : Cardinality(TopCandidates(key)) <= 1

\* C2 amended: every permutation of an input in which no key has two entries
\* sharing its greatest eligible last_modified yields the same winning entry
\* per key and the same download set.
C2_PermutationSameResultWithoutTopTie ==
    (pc = "resolved" /\ NoTieAtTop) => OrderIndependent

\* C2 witness: three entries of one key, two of them tied below the newest
\* eligible one, and the key is selected for download
C2_Witness ==
    /\ pc = "resolved"
    /\ NoTieAtTop
    /\ to_download # <<>>
    /\ \E a, b, c \in Candidates :
          /\ a.Key = b.Key /\ b.Key = c.Key
          /\ a # b
          /\ a.LastModified = b.LastModified
          /\ DtLess(b.LastModified, c.LastModified)

\* the scanned entries of a key that carry its greatest last_modified not
\* after the target timestamp
LatestEligible(key) ==
    LET c == { e \in Range(scanned) : e.Key = key /\ NotAfterTarget(e) }
    IN { e \in c : \A o \in c : DtLeq(o.LastModified, e.LastModified) }

\* C3: a key whose latest eligible entry is a delete marker is absent from the
\* download set, even when an older eligible non-delete version exists.
C3_DeleteMarkerExcludesKey ==
    pc = "resolved" =>
        \A key \in KeysOf(scanned) :
            (/\ LatestEligible(key) # {}
             /\ \A e \in LatestEligible(key) : IsDeleteMarker(e))
                => key \notin { p[1] : p \in Selection(to_download) }

\* C3 witness: the newest eligible entry of a file key is a delete marker, an
\* older eligible version with content exists, and the run has made its
\* selection
C3_Witness ==
    /\ pc = "resolved"
    /\ \E m, v \in Candidates :
          /\ m.Key = v.Key
          /\ ~IsPlaceholderKey(m.Key)
          /\ IsDeleteMarker(m)
          /\ TopCandidates(m.Key) = {m}
          /\ ~IsDeleteMarker(v)
          /\ v.Size > 0
          /\ DtLess(v.LastModified, m.LastModified)

\* C4: a key whose winning eligible entry has size 0 is excluded from the
\* download set, whether or not the key ends in a separator.
C4_ZeroSizeExcluded ==
    pc = "resolved" =>
        \A e \in Range(latest) :
            (~IsDeleteMarker(e) /\ e.Size = 0)
                => e.Key \notin { p[1] : p \in Selection(to_download) }

\* positions in the input of the entries of a key that share its greatest
\* eligible last_modified
TiedAt(key) ==
    LET top == TopCandidates(key)
    IN { i \in 1..Len(scanned) : scanned[i] \in top }
Least(S) == CHOOSE x \in S : \A y \in S : x <= y
Greatest(S) == CHOOSE x \in S : \A y \in S : x >= y

\* C5 as stated: of two entries of a key that share the greatest eligible
\* last_modified, the one encountered later is retained.
C5_LaterOfTieRetained ==
    Scanning =>
        \A key \in KeysOf(scanned) :
            LET tied == TiedAt(key)
            IN Cardinality(tied) >= 2
                  => /\ DictHas(latest, key)
                     /\ DictGet(latest, key) = scanned[Greatest(tied)]

\* C5 amended: of the entries of a key that share the greatest eligible
\* last_modified, the one encountered first is retained; a later entry with
\* the same last_modified does not replace it.
C5_EarlierOfTieRetained ==
    Scanning =>
        \A key \in KeysOf(scanned) :
            LET tied == TiedAt(key)
            IN Cardinality(tied) >= 2
                  => /\ DictHas(latest, key)
                     /\ DictGet(latest, key) = scanned[Least(tied)]

\* C5 witness: a version and, later in the input, a delete marker of the same
\* file key share the greatest eligible last_modified
C5_Witness ==
    /\ Scanning
    /\ \E i, j \in 1..Len(scanned) :
          /\ i < j
          /\ scanned[i] \in TopCandidates(scanned[i].Key)
          /\ scanned[j] \in TopCandidates(scanned[i].Key)
          /\ ~IsDeleteMarker(scanned[i])
          /\ IsDeleteMarker(scanned[j])

\* the datetime one microsecond after t
NextMicrosecond(t) ==
    IF t.microsecond < 999999 THEN [t EXCEPT !.microsecond = @ + 1]
    ELSE IF t.second < 59 THEN [t EXCEPT !.microsecond = 0, !.second = @ + 1]
    ELSE IF t.minute < 59
    THEN [t EXCEPT !.microsecond = 0, !.second = 0, !.minute = @ + 1]
    ELSE IF t.hour < 23
    THEN [t EXCEPT !.microsecond = 0, !.second = 0, !.minute = 0, !.hour = @ + 1]
    ELSE IF t.day < DaysInMonth(t.year, t.month)
    THEN Dt(t.year, t.month, t.day + 1, 0, 0, 0, 0)
    ELSE IF t.month < 12 THEN Dt(t.year, t.month + 1, 1, 0, 0, 0, 0)
    ELSE Dt(t.year + 1, 1, 1, 0, 0, 0, 0)

\* C6: the target timestamp of a YYYYMMDD date is 23:59:59.999999 of that
\* date; an entry exactly at the target timestamp is a candidate, an entry one
\* microsecond later is never retained and never selected for download.
C6_EndOfDayBoundary ==
    Scanning =>
        /\ target_timestamp.year * 10000 + target_timestamp.month * 100
               + target_timestamp.day
           = timestamp_str[1] * 10000000 + timestamp_str[2] * 1000000
             + timestamp_str[3] * 100000 + timestamp_str[4] * 10000
             + timestamp_str[5] * 1000 + timestamp_str[6] * 100
             + timestamp_str[7] * 10 + timestamp_str[8]
        /\ target_timestamp.hour = 23 /\ target_timestamp.minute = 59
        /\ target_timestamp.second = 59 /\ target_timestamp.microsecond = 999999
        /\ \A e \in Range(scanned) :
              /\ (/\ e.LastModified = target_timestamp
                  /\ ~(impl = "mono" /\ IsPlaceholderKey(e.Key)))
                    => /\ DictHas(latest, e.Key)
                       /\ DictGet(latest, e.Key).LastModified = target_timestamp
              /\ e.LastModified = NextMicrosecond(target_timestamp)
                    => /\ e \notin Range(latest)
                       /\ <<e.Key, e.VersionId>> \notin Selection(to_download)

\* C6 witness: a version exactly at the target timestamp and a later-scanned
\* version of the same key one microsecond after it; the first is selected
C6_Witness ==
    /\ pc = "resolved"
    /\ \E i, j \in 1..Len(scanned) :
          /\ i < j
          /\ scanned[i].Key = scanned[j].Key
          /\ scanned[i].LastModified = target_timestamp
          /\ scanned[j].LastModified = NextMicrosecond(target_timestamp)
          /\ ~IsDeleteMarker(scanned[j])
          /\ <<scanned[i].Key, scanned[i].VersionId>> \in Selection(to_download)

(***************************************************************************)
(* Properties of the path mapper                                           *)
(***************************************************************************)
Mapped == pm_pc \in {"mapped", "dirs"}
\* a relative path made of plain segments: no empty, "." or ".." segment
PlainPath(q) ==
    /\ q # <<>>
    /\ \A c \in Range(split(q)) : c # <<>> /\ c # dot /\ c # dotdot
\* q without its first n characters
DropFirst(q, n) == SubSeq(q, n + 1, Len(q))
\* the characters of the prefix up to and including its last separator
ParentPart(prefix) == SubSeq(prefix, 1, rfindAfter(prefix, Len(prefix)))
Under(dest, rel) == dest \o <<sep>> \o rel

\* C7: the local path is the destination root joined with the key relative to
\* the source prefix: a prefix ending in a separator is stripped, an empty
\* prefix leaves the full key, and for a prefix not ending in a separator the
\* key is taken relative to the prefix's parent directory, so that the last
\* segment of the prefix is kept (a/b + a/b/c/d.txt -> Download/b/c/d.txt).
C7_PathMapperRelativeToPrefix ==
    Mapped =>
        /\ (endswith(source_prefix, <<sep>>)
            /\ PlainPath(DropFirst(source_key, Len(source_prefix))))
              => local_path
                 = Under(dest_dir, DropFirst(source_key, Len(source_prefix)))
        /\ (source_prefix = <<>> /\ PlainPath(source_key))
              => local_path = Under(dest_dir, source_key)
        /\ (source_prefix # <<>> /\ ~endswith(source_prefix, <<sep>>)
            /\ PlainPath(source_key))
              => local_path
                 = Under(dest_dir,
                         DropFirst(source_key, Len(ParentPart(source_prefix))))

\* the normalized absolute segments of a path
Segments(path) == SelectNonEmpty(split(abspath(path)))
\* path lies in the directory root or below it
Inside(path, root) ==
    LET r == Segments(root)
        q == Segments(path)
    IN Len(r) <= Len(q) /\ SubSeq(q, 1, Len(r)) = r

\* C8: for every key listed under the source prefix the local path lies inside
\* the destination root, and so does the directory created for it.
C8_LocalPathInsideDestRoot ==
    /\ Mapped => Inside(local_path, dest_dir)
    /\ pm_pc = "dirs" => Inside(made_dir, dest_dir)

\* modular alone maps as C7 describes
PathMapperModularRelativeToPrefix ==
    pm_impl = "modular" => C7_PathMapperRelativeToPrefix

(***************************************************************************)
(* Properties of the batch download loop and of the single-file command    *)
(***************************************************************************)
BatchEnded == b_pc \in {"done", "exit1"}
\* the objects of the batch whose transfer does not succeed
FailedObjects ==
    { i \in 1..Len(b_faults) : ~(b_faults[i].exists /\ b_faults[i].fault = "none") }

\* C9: in a batch over N objects a failed transfer (backend error or local
\* I/O error) never prevents the attempts on the following objects: every
\* object is attempted exactly once and the reported tally has
\* succeeded + failed = N with failed the number of failed transfers.
C9_BatchAttemptsAllAndTallies ==
    (BatchEnded /\ Len(b_faults) >= 1) =>
        /\ \A i \in 1..Len(b_faults) : b_attempts[i] = 1
        /\ b_tally.printed
        /\ b_tally.succeeded + b_tally.failed = Len(b_faults)
        /\ b_tally.failed = Cardinality(FailedObjects)

SingleEnded == s_pc = "exit"

\* C10: in single-file mode a key that does not exist is fatal: the transfer
\* is never issued, no local file is created, the process exits non-zero, and
\* the 404 answer of the existence lookup is reported as not found with the
\* remote key and the bucket name.
C10_SingleFileNotFoundIsFatal ==
    ~s_exists =>
        /\ ~s_get_issued
        /\ ~s_file_created
        /\ SingleEnded =>
              /\ s_exit = "nonzero"
              /\ s_head = "404"
                    => Message("not_found", s_source, s_bucket) \in Range(s_report)
        /\ s_head = "404" => SingleEnded

\* C10 witness: the lookup of a missing key was answered 404 and the command
\* has ended
C10_Witness ==
    /\ ~s_exists
    /\ SingleEnded
    /\ s_head = "404"
    /\ s_exit = "nonzero"

\* the transfer stage was reached and did not produce the local file
TransferFailed == s_head = "200" /\ SingleEnded /\ ~s_file_created
ReportsSuccess == \E i \in 1..Len(s_report) : s_report[i].kind = "success"

\* C11: in single-file mode a failure of the transfer itself (a backend error
\* during the get, or a local I/O error such as permission denied on the
\* destination) is fatal: the command never reports a successful download and
\* exits with a non-zero status.
C11_SingleTransferFailureIsFatal ==
    TransferFailed => (~ReportsSuccess /\ s_exit = "nonzero")

\* mono alone treats every transfer failure as fatal
SingleTransferFailureIsFatalMono ==
    s_impl = "mono" => C11_SingleTransferFailureIsFatal

(***************************************************************************)
(* Properties of the start-up                                              *)
(***************************************************************************)
StartEnded == c_pc = "exit"
\* config.csv is read and lacks a required key, or holds no value for it
MissingRequired ==
    c_file = "ok" /\ \E k \in required_keys : c_rows[k] \in {"absent", "nan"}
\* the MFA exchange was made and the token service refused it or failed
MfaExchangeFailed ==
    /\ CountCalls(c_calls, "sts.get_session_token") >= 1
    /\ (c_sts_fault # "none" \/ c_token = "")
StorageCalls ==
    { i \in 1..Len(c_calls) : c_calls[i] # "sts.get_session_token" }

\* C12: configuration and authentication errors abort before any storage
\* work: when a required config key is missing no network call of any kind
\* is made; when the MFA exchange fails no storage client is constructed and
\* no list, head or get call is issued; the MFA exchange is made at most once
\* per invocation; and the process exits non-zero.
C12_ConfigAndAuthErrorsAbortFirst ==
    /\ MissingRequired =>
          /\ c_calls = <<>>
          /\ ~s3_client
          /\ c_pc \in {"start", "exit"}
          /\ StartEnded => c_exit = "nonzero"
    /\ MfaExchangeFailed =>
          /\ ~s3_client
          /\ StorageCalls = {}
          /\ StartEnded
          /\ c_exit = "nonzero"
    /\ CountCalls(c_calls, "sts.get_session_token") <= 1

\* C12 witness: the configuration is complete, the MFA exchange was made with
\* a typed token and answered MultiFactorAuthChallengeFailed, and the process
\* has ended
C12_Witness ==
    /\ ~MissingRequired
    /\ c_token # ""
    /\ c_sts_fault = "MultiFactorAuthChallengeFailed"
    /\ c_calls = <<"sts.get_session_token">>
    /\ StartEnded
    /\ c_exit = "nonzero"

\* a required key is missing and the process has ended
MissingKeyEnded ==
    MissingRequired /\ StartEnded /\ c_exit = "nonzero"

(***************************************************************************)
(* Placeholder keys, and the two resolvers against each other              *)
(***************************************************************************)
\* C13: no record whose key ends in the separator '/' appears in the download
\* set of a versioned download, whatever its size or version history; such
\* records are dropped by the listing step, so none is ever retained.
C13_NoPlaceholderInDownloadSet ==
    Scanning =>
        /\ \A e \in Range(latest) : ~IsPlaceholderKey(e.Key)
        /\ \A p \in Selection(to_download) : ~IsPlaceholderKey(p[1])

\* mono alone drops every placeholder key, and the entries it retains are
\* those it would retain had the listing held no placeholder key
NoPlaceholderInDownloadSetMono ==
    impl = "mono" =>
        /\ C13_NoPlaceholderInDownloadSet
        /\ Scanning =>
              latest = ScanAll(impl, <<>>,
                               SelectSeq(scanned,
                                         LAMBDA e : ~IsPlaceholderKey(e.Key)),
                               target_timestamp)

\* what the program im selects on the listing this run has scanned
SelectionOf(im) ==
    Selection(AsResult(im, FinalSelect(im, ScanAll(im, <<>>, scanned,
                                                   target_timestamp))))

\* C14: the two versioned-download implementations select the same set of
\* (key, version id) pairs on every version listing and target timestamp.
C14_ResolversSelectSamePairs ==
    pc = "resolved" =>
        /\ Selection(to_download) = SelectionOf(impl)
        /\ SelectionOf("mono") = SelectionOf("modular")

\* the listing holds no key ending in '/' and no version of size 0
PlainListing ==
    \A e \in Range(scanned) :
        ~IsPlaceholderKey(e.Key) /\ (IsDeleteMarker(e) \/ e.Size > 0)
\* on such listings the two implementations agree
ResolversAgreeOnPlainListings ==
    (pc = "resolved" /\ PlainListing) => C14_ResolversSelectSamePairs

====
